---- MODULE Spec2Model ----
(***************************************************************************)
(* Model of otodom/utils.py: text normalisation, region resolution from    *)
(* filters or from the autosuggest endpoint, search-URL construction and   *)
(* CSRF-token extraction.                                                  *)
(*                                                                         *)
(* A Python str is a sequence of characters; a character is a one-letter   *)
(* string, a non-ASCII code point is named "U+XXXX".  A Python dict is a   *)
(* sequence of [k, v] entries in insertion order.                          *)
(***************************************************************************)
EXTENDS Integers, Sequences, FiniteSets, TLC

(* ------------------------------ bounds --------------------------------- *)
\* Largest number of entries of a filter mapping passed to get_url.
MaxFilters == 3
\* Largest number of elements of a list-valued filter.
MaxListLen == 2
\* Largest page number passed to get_url.
MaxPage == 1

(* --------------------------- characters -------------------------------- *)
\* Code points 32..126 in order (the grave accent, 96, is named U+0060).
ASCII_CHARS == <<" ","!","\"","#","$","%","&","'","(",")","*","+",",","-",".","/","0","1","2","3","4","5","6","7","8","9",":",";","<","=",">","?","@","A","B","C","D","E","F","G","H","I","J","K","L","M","N","O","P","Q","R","S","T","U","V","W","X","Y","Z","[","\\","]","^","_","U+0060","a","b","c","d","e","f","g","h","i","j","k","l","m","n","o","p","q","r","s","t","u","v","w","x","y","z","{","|","}","~">>

HEX_DIGITS == <<"0","1","2","3","4","5","6","7","8","9","A","B","C","D","E","F">>

\* Non-ASCII code points of the model's alphabet: L/l with stroke, O/o with
\* acute, Z/z with acute, the combining acute accent.
NON_ASCII == {"U+0141", "U+0142", "U+00D3", "U+00F3", "U+0179", "U+017A", "U+0301"}

ASCII_ORD ==
    [c \in {ASCII_CHARS[i] : i \in 1..Len(ASCII_CHARS)} |->
        31 + (CHOOSE i \in 1..Len(ASCII_CHARS) : ASCII_CHARS[i] = c)]

ord(c) ==
    IF c \in DOMAIN ASCII_ORD THEN ASCII_ORD[c]
    ELSE CASE c = "\n" -> 10
           [] c = "U+0141" -> 321
           [] c = "U+0142" -> 322
           [] c = "U+00D3" -> 211
           [] c = "U+00F3" -> 243
           [] c = "U+0179" -> 377
           [] c = "U+017A" -> 378
           [] c = "U+0301" -> 769

chr(n) ==
    IF n \in 32..126 THEN ASCII_CHARS[n - 31]
    ELSE CASE n = 10 -> "\n"
           [] n = 321 -> "U+0141"
           [] n = 322 -> "U+0142"
           [] n = 211 -> "U+00D3"
           [] n = 243 -> "U+00F3"
           [] n = 377 -> "U+0179"
           [] n = 378 -> "U+017A"
           [] n = 769 -> "U+0301"

IsAsciiLetter(c) == ord(c) \in 65..90 \/ ord(c) \in 97..122
IsDigit(c) == ord(c) \in 48..57

\* str.lower() on one character: A-Z and the upper-case letters of NON_ASCII.
char_lower(c) ==
    IF ord(c) \in 65..90 THEN chr(ord(c) + 32)
    ELSE IF c = "U+0141" THEN "U+0142"
    ELSE IF c = "U+00D3" THEN "U+00F3"
    ELSE IF c = "U+0179" THEN "U+017A"
    ELSE c

\* unicodedata.normalize('NFKD', c): the compatibility decomposition of one
\* code point.  o-acute and z-acute decompose into base letter + U+0301;
\* l-with-stroke (U+0142) and L-with-stroke (U+0141) have no decomposition.
nfkd_char(c) ==
    IF c = "U+00F3" THEN <<"o", "U+0301">>
    ELSE IF c = "U+00D3" THEN <<"O", "U+0301">>
    ELSE IF c = "U+017A" THEN <<"z", "U+0301">>
    ELSE IF c = "U+0179" THEN <<"Z", "U+0301">>
    ELSE <<c>>

\* \s and \w of the re module on str patterns.
IsSpace(c) == c \in {" ", "\n"}
IsWord(c) ==
    IsAsciiLetter(c) \/ IsDigit(c) \/ c = "_" \/ (c \in NON_ASCII /\ c # "U+0301")

(* ------------------------- str operations ------------------------------ *)
RECURSIVE MapConcat(_, _)
\* The concatenation of f[s[i]] (a sequence each) over i.
MapConcat(f, s) == IF s = <<>> THEN <<>> ELSE f[Head(s)] \o MapConcat(f, Tail(s))

IsPrefixAt(s, p, i) == i + Len(p) - 1 <= Len(s) /\ SubSeq(s, i, i + Len(p) - 1) = p

RECURSIVE ReplaceFrom(_, _, _, _)
ReplaceFrom(s, old, new, i) ==
    IF i > Len(s) THEN <<>>
    ELSE IF IsPrefixAt(s, old, i) THEN new \o ReplaceFrom(s, old, new, i + Len(old))
    ELSE <<s[i]>> \o ReplaceFrom(s, old, new, i + 1)

\* str.replace(old, new), old non-empty: leftmost non-overlapping occurrences.
str_replace(s, old, new) == ReplaceFrom(s, old, new, 1)

RECURSIVE SplitFrom(_, _, _, _)
SplitFrom(s, sep, i, cur) ==
    IF i > Len(s) THEN <<cur>>
    ELSE IF IsPrefixAt(s, sep, i) THEN <<cur>> \o SplitFrom(s, sep, i + Len(sep), <<>>)
    ELSE SplitFrom(s, sep, i + 1, Append(cur, s[i]))

\* str.split(sep): empty fragments are kept, the result is never empty.
str_split(s, sep) == SplitFrom(s, sep, 1, <<>>)

RECURSIVE SplitWsFrom(_, _, _)
SplitWsFrom(s, i, cur) ==
    IF i > Len(s) THEN (IF cur = <<>> THEN <<>> ELSE <<cur>>)
    ELSE IF IsSpace(s[i])
         THEN (IF cur = <<>> THEN <<>> ELSE <<cur>>) \o SplitWsFrom(s, i + 1, <<>>)
    ELSE SplitWsFrom(s, i + 1, Append(cur, s[i]))

\* str.split(): runs of whitespace separate, empty fragments are dropped.
str_split_ws(s) == SplitWsFrom(s, 1, <<>>)

RECURSIVE str_join(_, _)
\* sep.join(parts)
str_join(sep, parts) ==
    IF parts = <<>> THEN <<>>
    ELSE IF Len(parts) = 1 THEN parts[1]
    ELSE parts[1] \o sep \o str_join(sep, Tail(parts))

str_lower(s) == [i \in 1..Len(s) |-> char_lower(s[i])]

nfkd(s) == MapConcat([c \in {s[i] : i \in 1..Len(s)} |-> nfkd_char(c)], s)

\* .encode('ascii', 'ignore').decode('utf-8'): code points above 127 are
\* dropped, the remaining bytes decode to the same characters.
encode_ascii_ignore(s) ==
    MapConcat([c \in {s[i] : i \in 1..Len(s)} |-> IF ord(c) < 128 THEN <<c>> ELSE <<>>], s)

RECURSIVE int_to_str(_)
\* "{}".format(n) for n >= 0
int_to_str(n) ==
    IF n < 10 THEN <<chr(48 + n)>> ELSE int_to_str(n \div 10) \o <<chr(48 + (n % 10))>>

hex_byte(b) == <<"%", HEX_DIGITS[(b \div 16) + 1], HEX_DIGITS[(b % 16) + 1]>>

\* urllib.parse.quote on one character (safe='/'): unreserved characters and
\* '/' are kept, every other character becomes %XX per UTF-8 byte.
quote_char(c) ==
    IF IsAsciiLetter(c) \/ IsDigit(c) \/ c \in {"_", ".", "-", "~", "/"} THEN <<c>>
    ELSE IF ord(c) < 128 THEN hex_byte(ord(c))
    ELSE hex_byte(192 + (ord(c) \div 64)) \o hex_byte(128 + (ord(c) % 64))

quote(s) == MapConcat([c \in {s[i] : i \in 1..Len(s)} |-> quote_char(c)], s)

(* ----------------------------- values ---------------------------------- *)
\* A Python value: str, int, list of scalars, or None.
StrV(s) == [t |-> "str", s |-> s, n |-> 0, l |-> <<>>]
IntV(n) == [t |-> "int", s |-> <<>>, n |-> n, l |-> <<>>]
ListV(l) == [t |-> "list", s |-> <<>>, n |-> 0, l |-> l]
NoneV == [t |-> "none", s |-> <<>>, n |-> 0, l |-> <<>>]

\* "{}".format(v) for a scalar v
format(v) ==
    IF v.t = "str" THEN v.s
    ELSE IF v.t = "int" THEN int_to_str(v.n)
    ELSE <<"N","o","n","e">>

(* ------------------------------ dicts ---------------------------------- *)
Keys(d) == {d[i].k : i \in 1..Len(d)}
DictGet(d, k) == d[CHOOSE i \in 1..Len(d) : d[i].k = k].v
\* d[k] = v: an existing key keeps its place, a new key is appended.
DictSet(d, k, v) ==
    IF k \in Keys(d)
    THEN [i \in 1..Len(d) |-> IF d[i].k = k THEN [k |-> k, v |-> v] ELSE d[i]]
    ELSE Append(d, [k |-> k, v |-> v])

(* --------------------------- constants --------------------------------- *)
\* otodom.BASE_URL, imported by utils.py and set outside it; no function of
\* utils.py looks into its value.  The model takes the site's address.
BASE_URL == <<"h","t","t","p","s",":","/","/","w","w","w",".","o","t","o","d","o","m",".","p","l">>

CITY == <<"c","i","t","y">>
VOIVODESHIP == <<"v","o","i","v","o","d","e","s","h","i","p">>
DISTRICT_ID == <<"[","d","i","s","t","r","i","c","t","_","i","d","]">>
STREET_ID == <<"[","s","t","r","e","e","t","_","i","d","]">>
BUILDING_TYPE == <<"b","u","i","l","d","i","n","g","_","t","y","p","e">>
DESCRIPTION_FRAGMENT == <<"d","e","s","c","r","i","p","t","i","o","n","_","f","r","a","g","m","e","n","t">>

REGION_DATA_KEYS == <<CITY, VOIVODESHIP, DISTRICT_ID, STREET_ID>>

AUTOSUGGEST_URL == <<"h","t","t","p","s",":","/","/","w","w","w",".","o","t","o","d","o","m",".","p","l","/","a","j","a","x","/","g","e","o","6","/","a","u","t","o","s","u","g","g","e","s","t","/","?","d","a","t","a","=">>

STRONG_OPEN == <<"<","s","t","r","o","n","g",">">>
STRONG_CLOSE == <<"<","/","s","t","r","o","n","g",">">>
SEARCH == <<"s","e","a","r","c","h">>
PAGE_EQ == <<"p","a","g","e","=">>
CSRF_TOKEN == <<"c","s","r","f","T","o","k","e","n">>

(* --------------------------- normalize_text ---------------------------- *)
normalize_text(text) ==
    str_replace(encode_ascii_ignore(nfkd(str_lower(text))), <<" ">>, <<"-">>)

(* --------------------- get_region_from_autosuggest --------------------- *)
\* The outcome of a call that builds a region mapping: "return" or the name
\* of the exception raised, the mapping, and the URLs requested on the way.
Region(outcome, region_dict, requested) ==
    [outcome |-> outcome, region_dict |-> region_dict, requested |-> requested]

\* "{0}{1}{2}".format(normalize_text(name), "_", response["city_id"])
city_value(name, response) ==
    StrV(normalize_text(name) \o <<"_">> \o format(IntV(response.city_id)))

\* Mutant of empty_region_part: the empty fragment is looked up like any other.
empty_region_part_never(region_part) == FALSE

\* if not region_part: return {}
empty_region_part(region_part) == region_part = <<>>

\* "https://www.otodom.pl/ajax/geo6/autosuggest/?data={0}".format(region_part)
autosuggest_url(region_part) == AUTOSUGGEST_URL \o region_part

\* if region_type == "CITY"
city_branch(text, response) ==
    IF "city_id" \notin response.has THEN [outcome |-> "KeyError", d |-> <<>>]
    ELSE [outcome |-> "return", d |-> <<[k |-> CITY, v |-> city_value(text[1], response)]>>]

\* Mutant of district_branch: the city is named by the first fragment.
district_branch_first_fragment(text, response) ==
    IF "city_id" \notin response.has \/ "district_id" \notin response.has
    THEN [outcome |-> "KeyError", d |-> <<>>]
    ELSE [outcome |-> "return",
          d |-> <<[k |-> CITY, v |-> city_value(text[1], response)],
                  [k |-> DISTRICT_ID, v |-> IntV(response.district_id)]>>]

\* elif region_type == "DISTRICT" (text[1] of Python is the second fragment)
district_branch(text, response) ==
    IF Len(text) < 2 THEN [outcome |-> "IndexError", d |-> <<>>]
    ELSE IF "city_id" \notin response.has \/ "district_id" \notin response.has
    THEN [outcome |-> "KeyError", d |-> <<>>]
    ELSE [outcome |-> "return",
          d |-> <<[k |-> CITY, v |-> city_value(text[2], response)],
                  [k |-> DISTRICT_ID, v |-> IntV(response.district_id)]>>]

\* elif region_type == "REGION"
region_branch(text, response) ==
    [outcome |-> "return", d |-> <<[k |-> VOIVODESHIP, v |-> StrV(normalize_text(text[1]))]>>]

\* elif region_type == "STREET"
street_branch(text, response) ==
    IF "city_id" \notin response.has \/ "street_id" \notin response.has
    THEN [outcome |-> "KeyError", d |-> <<>>]
    ELSE [outcome |-> "return",
          d |-> <<[k |-> CITY, v |-> city_value(text[1], response)],
                  [k |-> STREET_ID, v |-> IntV(response.street_id)]>>]

\* Mutant of no_branch: an unexpected level is a lookup error.
no_branch_raises(text, response) == [outcome |-> "KeyError", d |-> <<>>]

\* No branch of the if/elif chain is taken: region_dict stays as initialised.
no_branch(text, response) == [outcome |-> "return", d |-> <<>>]

\* response["text"].replace("<strong>", "").replace("</strong>", "").split(", ")
split_text(response) ==
    str_split(str_replace(str_replace(response.text, STRONG_OPEN, <<>>), STRONG_CLOSE, <<>>),
              <<",", " ">>)

\* resp is what the endpoint answers: body "malformed" (not JSON), "empty"
\* (the JSON array []), or "object" (an array whose first element is the
\* object with the fields named in resp.has).
get_region_from_autosuggest(region_part, resp) ==
    IF empty_region_part(region_part) THEN Region("return", <<>>, <<>>)
    ELSE LET url == autosuggest_url(region_part)
             r ==
               IF resp.body = "malformed" THEN [outcome |-> "JSONDecodeError", d |-> <<>>]
               ELSE IF resp.body = "empty" THEN [outcome |-> "IndexError", d |-> <<>>]
               ELSE IF "level" \notin resp.has THEN [outcome |-> "KeyError", d |-> <<>>]
               ELSE IF "text" \notin resp.has THEN [outcome |-> "KeyError", d |-> <<>>]
               ELSE LET text == split_text(resp)
                    IN  IF resp.level = "CITY" THEN city_branch(text, resp)
                        ELSE IF resp.level = "DISTRICT" THEN district_branch(text, resp)
                        ELSE IF resp.level = "REGION" THEN region_branch(text, resp)
                        ELSE IF resp.level = "STREET" THEN street_branch(text, resp)
                        ELSE no_branch(text, resp)
         IN  Region(r.outcome, r.d, <<url>>)

(* ----------------------- get_region_from_filters ----------------------- *)
RECURSIVE project_keys(_, _)
project_keys(filters, keys) ==
    IF keys = <<>> THEN <<>>
    ELSE (IF Head(keys) \in Keys(filters)
          THEN <<[k |-> Head(keys), v |-> DictGet(filters, Head(keys))]>>
          ELSE <<>>) \o project_keys(filters, Tail(keys))

get_region_from_filters(filters) == project_keys(filters, REGION_DATA_KEYS)

(* ------------------------------ get_url -------------------------------- *)
\* Mutant of region_in_filters: all() in place of any().
region_in_filters_all(filters) ==
    \A i \in 1..Len(REGION_DATA_KEYS) : REGION_DATA_KEYS[i] \in Keys(filters)

\* any([region_key in filters for region_key in REGION_DATA_KEYS])
region_in_filters(filters) ==
    \E i \in 1..Len(REGION_DATA_KEYS) : REGION_DATA_KEYS[i] \in Keys(filters)

city_or_voivodeship(region_data) ==
    IF CITY \in Keys(region_data) THEN DictGet(region_data, CITY).s
    ELSE IF VOIVODESHIP \in Keys(region_data) THEN DictGet(region_data, VOIVODESHIP).s
    ELSE <<>>

\* The two "if ... in region_data: filters[...] = region_data[...]" statements.
promote_ids(filters, region_data) ==
    LET f1 == IF DISTRICT_ID \in Keys(region_data)
              THEN DictSet(filters, DISTRICT_ID, DictGet(region_data, DISTRICT_ID))
              ELSE filters
    IN  IF STREET_ID \in Keys(region_data)
        THEN DictSet(f1, STREET_ID, DictGet(region_data, STREET_ID))
        ELSE f1

\* Mutant of path_segments: the two blocks in the other order.
path_segments_swapped(base, filters) ==
    LET u1 == IF DESCRIPTION_FRAGMENT \in Keys(filters)
              THEN base \o <<"/", "q", "-">>
                        \o str_join(<<"-">>, str_split_ws(DictGet(filters, DESCRIPTION_FRAGMENT).s))
              ELSE base
    IN  IF BUILDING_TYPE \in Keys(filters)
        THEN u1 \o <<"/">> \o DictGet(filters, BUILDING_TYPE).s
        ELSE u1

\* The building-type and description-fragment segments appended to the base url.
path_segments(base, filters) ==
    LET u1 == IF BUILDING_TYPE \in Keys(filters)
              THEN base \o <<"/">> \o DictGet(filters, BUILDING_TYPE).s
              ELSE base
    IN  IF DESCRIPTION_FRAGMENT \in Keys(filters)
        THEN u1 \o <<"/", "q", "-">>
                \o str_join(<<"-">>, str_split_ws(DictGet(filters, DESCRIPTION_FRAGMENT).s))
        ELSE u1

\* Mutant of filter_fragments: the key is not passed through quote.
filter_fragments_unquoted(key, value) ==
    IF value.t = "list"
    THEN [i \in 1..Len(value.l) |-> SEARCH \o key \o <<"=">> \o format(value.l[i])]
    ELSE <<SEARCH \o key \o <<"=">> \o format(value)>>

\* The body of "for key, value in filters.items()".
filter_fragments(key, value) ==
    IF value.t = "list"
    THEN [i \in 1..Len(value.l) |-> SEARCH \o quote(key) \o <<"=">> \o format(value.l[i])]
    ELSE <<SEARCH \o quote(key) \o <<"=">> \o format(value)>>

RECURSIVE build_filter_list(_)
build_filter_list(filters) ==
    IF filters = <<>> THEN <<>>
    ELSE filter_fragments(Head(filters).k, Head(filters).v) \o build_filter_list(Tail(filters))

\* The outcome of get_url with the values of its locals when it ends.
get_url(main_category, detail_category, region, ads_per_page, page, filters, resp) ==
    LET page_str == IF page.t # "none" THEN PAGE_EQ \o format(page) ELSE <<>>
        from_filters == region_in_filters(filters)
        resolved == IF from_filters
                    THEN Region("return", get_region_from_filters(filters), <<>>)
                    ELSE get_region_from_autosuggest(region, resp)
    IN  IF resolved.outcome # "return"
        THEN [outcome |-> resolved.outcome, url |-> <<>>, region_data |-> <<>>,
              filters |-> filters, filter_list |-> <<>>, requested |-> resolved.requested]
        ELSE LET region_data == resolved.region_dict
                 filters2 == promote_ids(filters, region_data)
                 base == str_join(<<"/">>, <<BASE_URL, main_category, detail_category,
                                             city_or_voivodeship(region_data)>>)
                 path == path_segments(base, filters2)
                 filter_list == build_filter_list(filters2)
             IN  [outcome |-> "return",
                  url |-> path \o str_join(<<"&">>, <<ads_per_page, page_str>> \o filter_list),
                  region_data |-> region_data,
                  filters |-> filters2,
                  filter_list |-> filter_list,
                  requested |-> resolved.requested]

(* --------------------------- get_csrf_token ---------------------------- *)
\* str(html_content) for a bytes object: its repr.  The repr is quoted with
\* " when the content holds ' and no ", else with ' (then ' is escaped).
bytes_repr(data) ==
    LET chars == {data[i] : i \in 1..Len(data)}
        dq == "'" \in chars /\ "\"" \notin chars
        q == IF dq THEN "\"" ELSE "'"
        esc == [c \in chars |->
                  IF c = "\\" THEN <<"\\", "\\">>
                  ELSE IF c = "\n" THEN <<"\\", "n">>
                  ELSE IF c = "'" /\ ~dq THEN <<"\\", "'">>
                  ELSE <<c>>]
    IN  <<"b", q>> \o MapConcat(esc, data) \o <<q>>

\* str(html_content)
py_str(html_content) ==
    IF html_content.bytes THEN bytes_repr(html_content.data) ELSE html_content.data

\* The first index from j on whose character is not in S (Len(s) + 1 if none).
RunEnd(s, j, S) ==
    CHOOSE e \in j..(Len(s) + 1) :
        /\ \A x \in j..(e - 1) : s[x] \in S
        /\ e = Len(s) + 1 \/ s[e] \notin S

\* csrfToken\s+=(\\|\s)+'(?P<csrf_token>\w+) matched from index i: <<TRUE,
\* token>> or <<FALSE, <<>>>>.
match_token_at(s, i) ==
    LET chars == {s[x] : x \in 1..Len(s)}
        j == i + Len(CSRF_TOKEN)
        a == RunEnd(s, j, {c \in chars : IsSpace(c)})
        b == RunEnd(s, a + 1, {c \in chars : IsSpace(c) \/ c = "\\"})
        e == RunEnd(s, b + 1, {c \in chars : IsWord(c)})
    IN  IF /\ IsPrefixAt(s, CSRF_TOKEN, i)
           /\ j <= Len(s) /\ a > j /\ a <= Len(s) /\ s[a] = "="
           /\ b > a + 1 /\ b <= Len(s) /\ s[b] = "'"
           /\ e > b + 1
        THEN <<TRUE, SubSeq(s, b + 1, e - 1)>>
        ELSE <<FALSE, <<>>>>

\* re.match(r".*csrfToken\s+=(\\|\s)+'(?P<csrf_token>\w+).*", s): the leading
\* .* is greedy and matches no newline, so the match starts the token
\* pattern at the last index that only non-newline characters precede.
re_match(s) ==
    LET starts == {i \in 1..Len(s) : /\ \A x \in 1..(i - 1) : s[x] # "\n"
                                     /\ match_token_at(s, i)[1]}
    IN  IF starts = {} THEN <<FALSE, <<>>>>
        ELSE match_token_at(s, CHOOSE i \in starts : \A o \in starts : o <= i)

\* found is None: found.groupdict() raises AttributeError.
no_match(found) == [outcome |-> "AttributeError", ret |-> NoneV]

get_csrf_token(html_content) ==
    LET found == re_match(py_str(html_content))
    IN  IF found[1] THEN [outcome |-> "return", ret |-> StrV(found[2])]
        ELSE no_match(found)

(* ------------------------------ inputs --------------------------------- *)
FIELDS == {"level", "text", "city_id", "district_id", "street_id"}

\* Which fields the first element of the answer has: all, all but one, or
\* only the ones every level needs.
HAS_SETS ==
    {FIELDS} \cup {FIELDS \ {f} : f \in FIELDS} \cup {{"level", "text", "city_id"}, {"level", "text"}}

LEVELS == {"CITY", "DISTRICT", "REGION", "STREET", "COUNTRY"}

\* "<strong>Wo</strong>la, Lodz" (with the Polish letters), "Lodz" alone
\* (with the Polish letters), "Nowa Wola, Ab, Cd".
RESPONSE_TEXTS ==
    { STRONG_OPEN \o <<"W","o">> \o STRONG_CLOSE \o <<"l","a",","," ","U+0141","U+00F3","d","U+017A">>,
      <<"U+0141","U+00F3","d","U+017A">>,
      <<"N","o","w","a"," ","W","o","l","a",","," ","A","b",","," ","C","d">> }

NoResponse ==
    [body |-> "none", has |-> {}, level |-> "", text |-> <<>>,
     city_id |-> 0, district_id |-> 0, street_id |-> 0]

Responses ==
    { [NoResponse EXCEPT !.body = "malformed"], [NoResponse EXCEPT !.body = "empty"] }
    \cup { [body |-> "object", has |-> h, level |-> lv, text |-> tx,
            city_id |-> 26, district_id |-> 7, street_id |-> 9]
           : h \in HAS_SETS, lv \in LEVELS, tx \in RESPONSE_TEXTS }

\* "", "Wola", "a &" followed by l-with-stroke
REGIONS == { <<>>, <<"W","o","l","a">>, <<"a"," ","&","U+0142">> }

MAIN_CATEGORIES == { <<"s","p","r","z","e","d","a","z">> }
DETAIL_CATEGORIES == { <<"m","i","e","s","z","k","a","n","i","e">> }
ADS_PER_PAGE == { <<>>, <<"?","n","r","A","d","s","P","e","r","P","a","g","e","=","7","2">> }
PAGES == {NoneV} \cup {IntV(n) : n \in 1..MaxPage}

\* The keyword arguments a call of get_url may pass, in the order it passes
\* them, each with the values it may take.
FILTER_POOL ==
    << [k |-> BUILDING_TYPE, vals |-> {StrV(<<"b","l","o","k">>)}],
       [k |-> <<"[","r","o","o","m","s","]">>,
        vals |-> {ListV([i \in 1..n |-> IntV(i)]) : n \in 0..MaxListLen}],
       [k |-> CITY, vals |-> {StrV(<<"w","a","r","s","z","a","w","a","_","1">>)}],
       [k |-> DESCRIPTION_FRAGMENT,
        vals |-> {StrV(<<"b","l","i","s","k","o"," ","m","e","t","r","a">>),
                  StrV(<<" ","a"," "," ","b">>)}],
       [k |-> <<"[","p","r","i","c","e","]">>, vals |-> {IntV(5)}],
       [k |-> VOIVODESHIP, vals |-> {StrV(<<"m","a","z","o","w","i","e","c","k","i","e">>)}],
       [k |-> DISTRICT_ID, vals |-> {IntV(7)}],
       [k |-> STREET_ID, vals |-> {IntV(9)}] >>

RECURSIVE FiltersFrom(_, _)
\* The filter mappings of at most n entries drawn from FILTER_POOL[i..].
FiltersFrom(i, n) ==
    IF i > Len(FILTER_POOL) \/ n = 0 THEN {<<>>}
    ELSE FiltersFrom(i + 1, n)
         \cup { <<[k |-> FILTER_POOL[i].k, v |-> v]>> \o rest :
                  v \in FILTER_POOL[i].vals, rest \in FiltersFrom(i + 1, n - 1) }

FILTERS == FiltersFrom(1, MaxFilters)

\* Strings of at most two characters over a small alphabet, and "Lodz Wola"
\* with the Polish letters.
TEXT_ALPHABET == {"a", "B", " ", "-", "U+0141", "U+0142", "U+00F3", "U+0179"}
TEXTS ==
    {<<>>} \cup {<<c>> : c \in TEXT_ALPHABET}
    \cup {<<c, d>> : c \in TEXT_ALPHABET, d \in TEXT_ALPHABET}
    \cup { <<"U+0141","U+00F3","d","U+017A"," ","W","o","l","a">> }

\* Bodies assembled around "csrfToken = 'XY1'".
HTML_DATA ==
    { pre \o kw \o ws1 \o <<"=">> \o ws2 \o <<"'">> \o tok \o post :
        pre \in {<<>>, <<"x">>, <<"\n">>, <<"\"">>},
        kw \in {CSRF_TOKEN, <<"c","s","r","f">>},
        ws1 \in {<<" ">>, <<>>, <<" ", "\n">>},
        ws2 \in {<<" ">>, <<>>, <<"\\">>},
        tok \in {<<"X","Y","1">>, <<>>},
        post \in {<<"'", ";">>, <<>>} }
HTML_CONTENTS == {[bytes |-> b, data |-> d] : b \in BOOLEAN, d \in HTML_DATA}

\* What the endpoint may answer to the requests of a call: nothing when the
\* call issues no request.
Answers(requests) == IF requests = <<>> THEN {NoResponse} ELSE Responses

(* --------------------------- state machine ----------------------------- *)
\* A behaviour is one call: the functions keep no state from call to call.
VARIABLES
    op,           \* the function called last ("none" before any call)
    args,         \* its arguments
    response,     \* what the autosuggest endpoint answered during the call
    outcome,      \* "return", or the exception the call raised
    ret,          \* the str (or None) returned
    region_data,  \* the region mapping returned or, in get_url, resolved
    filters_out,  \* get_url: the filter mapping after the ids are promoted
    filter_list,  \* get_url: the query fragments
    requested     \* the URLs passed to get_response_for_url during the call

vars == <<op, args, response, outcome, ret, region_data, filters_out, filter_list, requested>>

NoArgs ==
    [text |-> <<>>, region |-> <<>>, main_category |-> <<>>, detail_category |-> <<>>,
     ads_per_page |-> <<>>, page |-> NoneV, filters |-> <<>>,
     html_content |-> [bytes |-> FALSE, data |-> <<>>]]

Init ==
    /\ op = "none"
    /\ args = NoArgs
    /\ response = NoResponse
    /\ outcome = "return"
    /\ ret = NoneV
    /\ region_data = <<>>
    /\ filters_out = <<>>
    /\ filter_list = <<>>
    /\ requested = <<>>

NormalizeText ==
    /\ op = "none"
    /\ \E text \in TEXTS :
        /\ op' = "normalize_text"
        /\ args' = [NoArgs EXCEPT !.text = text]
        /\ outcome' = "return"
        /\ ret' = StrV(normalize_text(text))
        /\ response' = NoResponse
        /\ region_data' = <<>>
        /\ filters_out' = <<>>
        /\ filter_list' = <<>>
        /\ requested' = <<>>

GetRegionFromAutosuggest ==
    /\ op = "none"
    /\ \E region_part \in REGIONS, resp \in Responses :
        \E r \in {get_region_from_autosuggest(region_part, resp)} :
            /\ op' = "get_region_from_autosuggest"
            /\ args' = [NoArgs EXCEPT !.region = region_part]
            /\ response' = IF r.requested = <<>> THEN NoResponse ELSE resp
            /\ outcome' = r.outcome
            /\ region_data' = r.region_dict
            /\ requested' = r.requested
            /\ ret' = NoneV
            /\ filters_out' = <<>>
            /\ filter_list' = <<>>

GetRegionFromFilters ==
    /\ op = "none"
    /\ \E filters \in FILTERS :
        /\ op' = "get_region_from_filters"
        /\ args' = [NoArgs EXCEPT !.filters = filters]
        /\ response' = NoResponse
        /\ outcome' = "return"
        /\ region_data' = get_region_from_filters(filters)
        /\ requested' = <<>>
        /\ ret' = NoneV
        /\ filters_out' = <<>>
        /\ filter_list' = <<>>

GetUrl ==
    /\ op = "none"
    /\ \E main_category \in MAIN_CATEGORIES, detail_category \in DETAIL_CATEGORIES,
       region \in REGIONS, ads_per_page \in ADS_PER_PAGE, page \in PAGES,
       filters \in FILTERS :
        \E resp \in Answers(get_url(main_category, detail_category, region, ads_per_page,
                                    page, filters, NoResponse).requested) :
        \E r \in {get_url(main_category, detail_category, region, ads_per_page, page,
                          filters, resp)} :
            /\ op' = "get_url"
            /\ args' = [NoArgs EXCEPT !.main_category = main_category,
                                      !.detail_category = detail_category,
                                      !.region = region,
                                      !.ads_per_page = ads_per_page,
                                      !.page = page,
                                      !.filters = filters]
            /\ response' = IF r.requested = <<>> THEN NoResponse ELSE resp
            /\ outcome' = r.outcome
            /\ ret' = IF r.outcome = "return" THEN StrV(r.url) ELSE NoneV
            /\ region_data' = r.region_data
            /\ filters_out' = r.filters
            /\ filter_list' = r.filter_list
            /\ requested' = r.requested

GetCsrfToken ==
    /\ op = "none"
    /\ \E html_content \in HTML_CONTENTS :
        \E r \in {get_csrf_token(html_content)} :
            /\ op' = "get_csrf_token"
            /\ args' = [NoArgs EXCEPT !.html_content = html_content]
            /\ response' = NoResponse
            /\ outcome' = r.outcome
            /\ ret' = r.ret
            /\ region_data' = <<>>
            /\ filters_out' = <<>>
            /\ filter_list' = <<>>
            /\ requested' = <<>>

Next ==
    \/ NormalizeText
    \/ GetRegionFromAutosuggest
    \/ GetRegionFromFilters
    \/ GetUrl
    \/ GetCsrfToken

Spec == Init /\ [][Next]_vars

(* ------------------------------ claims --------------------------------- *)
RegionKeys == {REGION_DATA_KEYS[i] : i \in 1..Len(REGION_DATA_KEYS)}
KnownLevels == {"CITY", "DISTRICT", "REGION", "STREET"}

Returned(f) == op = f /\ outcome = "return"

\* BASE_URL/main_category/detail_category/ of the call's arguments
PathPrefix == BASE_URL \o <<"/">> \o args.main_category \o <<"/">> \o args.detail_category \o <<"/">>

\* The returned URL has an empty location segment: what follows the path
\* prefix opens another path segment or the query.
EmptyLocation ==
    /\ IsPrefixAt(ret.s, PathPrefix, 1)
    /\ Len(ret.s) > Len(PathPrefix)
    /\ ret.s[Len(PathPrefix) + 1] \in {"/", "&", "?"}

\* The query of the returned URL: page size, page number and the fragments.
Query ==
    str_join(<<"&">>,
             <<args.ads_per_page,
               IF args.page.t = "none" THEN <<>> ELSE PAGE_EQ \o int_to_str(args.page.n)>>
             \o filter_list)

\* C1: in get_url, when the filters hold a recognized region key, no request
\* is issued whatever the region argument is, and the region data is the
\* projection of the filters onto the recognized keys.
C1_FiltersShortCircuit ==
    (op = "get_url" /\ Keys(args.filters) \cap RegionKeys # {}) =>
        /\ requested = <<>>
        /\ response = NoResponse
        /\ outcome = "return"
        /\ Keys(region_data) = Keys(args.filters) \cap RegionKeys
        /\ \A k \in Keys(region_data) : DictGet(region_data, k) = DictGet(args.filters, k)

C1_Witness ==
    /\ Returned("get_url")
    /\ args.region # <<>>
    /\ CITY \in Keys(args.filters)
    /\ DISTRICT_ID \notin Keys(args.filters)
    /\ Keys(region_data) = {CITY}
    /\ requested = <<>>

\* C2: get_region_from_autosuggest with an empty fragment returns the empty
\* mapping and requests nothing; get_url with an empty region and no region
\* key in the filters returns a URL with an empty location segment and
\* requests nothing.
C2_EmptyRegionNoRequest ==
    /\ (op = "get_region_from_autosuggest" /\ args.region = <<>>) =>
           outcome = "return" /\ region_data = <<>> /\ requested = <<>>
    /\ (op = "get_url" /\ args.region = <<>> /\ Keys(args.filters) \cap RegionKeys = {}) =>
           /\ outcome = "return"
           /\ requested = <<>>
           /\ region_data = <<>>
           /\ EmptyLocation

C2_Witness ==
    /\ Returned("get_url")
    /\ args.region = <<>>
    /\ Keys(args.filters) \cap RegionKeys = {}
    /\ BUILDING_TYPE \in Keys(args.filters)
    /\ requested = <<>>

\* The endpoint answered with an object whose level is none of the four.
UnexpectedLevel ==
    /\ op \in {"get_region_from_autosuggest", "get_url"}
    /\ requested # <<>>
    /\ response.body = "object"
    /\ "level" \in response.has
    /\ response.level \notin KnownLevels

\* C3 as stated: an unexpected level ends the call in an error; no mapping
\* and no URL is returned.
C3_UnexpectedLevelRaises == UnexpectedLevel => outcome # "return"

\* C3 as amended: with an unexpected level and the text field present the
\* call raises nothing: get_region_from_autosuggest returns the empty mapping
\* and get_url returns a URL with an empty location segment; only a missing
\* text field makes the call raise (KeyError).
C3_UnexpectedLevelEmptyMapping ==
    UnexpectedLevel =>
        IF "text" \in response.has
        THEN /\ outcome = "return"
             /\ region_data = <<>>
             /\ op = "get_url" => EmptyLocation /\ filters_out = args.filters
        ELSE outcome = "KeyError"

C3_Witness ==
    /\ UnexpectedLevel
    /\ "text" \in response.has
    /\ Returned("get_url")
    /\ region_data = <<>>

\* The fragments of filter_list written for key k.
FragmentsOf(k) ==
    {i \in 1..Len(filter_list) : IsPrefixAt(filter_list[i], SEARCH \o quote(k) \o <<"=">>, 1)}

ConsumedKeys == {CITY, VOIVODESHIP, BUILDING_TYPE, DESCRIPTION_FRAGMENT}

\* C4: a filter consumed as the location, building-type or description
\* segment of the path is not also written as a query fragment, and every
\* other filter is written as at least one fragment.
C4_OnlyRemainingFilters ==
    Returned("get_url") =>
        \A k \in Keys(filters_out) :
            IF k \in ConsumedKeys THEN FragmentsOf(k) = {} ELSE FragmentsOf(k) # {}

\* Number of fragments a filter value contributes.
FragmentCount(v) == IF v.t = "list" THEN Len(v.l) ELSE 1

RECURSIVE FragmentsBefore(_, _)
\* Number of fragments the entries before the i-th contribute.
FragmentsBefore(d, i) ==
    IF i <= 1 THEN 0 ELSE FragmentsBefore(d, i - 1) + FragmentCount(d[i - 1].v)

HasTokenPattern(s) == \E i \in 1..Len(s) : match_token_at(s, i)[1]

\* C6: get_csrf_token returns the captured token when the body holds the
\* pattern csrfToken = '<token>', and returns None, raising nothing, when it
\* does not.
C6_TokenOrNone ==
    op = "get_csrf_token" =>
        IF HasTokenPattern(py_str(args.html_content))
        THEN outcome = "return" /\ ret.t = "str" /\ ret.s # <<>>
        ELSE outcome = "return" /\ ret = NoneV

\* C7: the URL requested by get_region_from_autosuggest for a non-empty
\* fragment is the endpoint followed by the URL-escaped fragment, so no
\* space, &, # or non-ASCII letter appears in it unescaped.
C7_RequestedUrlEscaped ==
    (op = "get_region_from_autosuggest" /\ args.region # <<>>) =>
        /\ requested = <<AUTOSUGGEST_URL \o quote(args.region)>>
        /\ \A j \in 1..Len(requested[1]) :
               requested[1][j] \notin {" ", "&", "#"} \cup NON_ASCII

\* The base letter of a Polish letter, lower-cased; a hyphen for a space.
BaseLetter(c) ==
    IF c \in {"U+0141", "U+0142"} THEN "l"
    ELSE IF c \in {"U+00D3", "U+00F3"} THEN "o"
    ELSE IF c \in {"U+0179", "U+017A"} THEN "z"
    ELSE IF c = " " THEN "-"
    ELSE char_lower(c)

\* C8: normalize_text yields a lower-case ASCII string with one character
\* per input character, each letter with a diacritic replaced by its base
\* letter and each space by a hyphen; "Lodz Wola" written with the Polish
\* letters yields "lodz-wola".
C8_NormalizeKeepsBaseLetters ==
    op = "normalize_text" =>
        /\ outcome = "return"
        /\ ret.s = [i \in 1..Len(args.text) |-> BaseLetter(args.text[i])]
        /\ args.text = <<"U+0141","U+00F3","d","U+017A"," ","W","o","l","a">> =>
               ret.s = <<"l","o","d","z","-","w","o","l","a">>

\* The fields a level's branch reads are there, the text has the fragment
\* the branch names.
WellFormed ==
    /\ response.body = "object"
    /\ {"level", "text"} \subseteq response.has
    /\ response.level \in KnownLevels
    /\ response.level \in {"CITY", "DISTRICT", "STREET"} => "city_id" \in response.has
    /\ response.level = "DISTRICT" =>
           "district_id" \in response.has /\ Len(split_text(response)) >= 2
    /\ response.level = "STREET" => "street_id" \in response.has

\* The key set each level gives.
LevelKeys(level) ==
    CASE level = "CITY" -> {CITY}
      [] level = "DISTRICT" -> {CITY, DISTRICT_ID}
      [] level = "REGION" -> {VOIVODESHIP}
      [] level = "STREET" -> {CITY, STREET_ID}

\* C9: for a well-formed response the keys of the mapping returned by
\* get_region_from_autosuggest are fixed by the level; city and voivodeship
\* never occur together; city is <normalized name>_<city_id>, the name being
\* the first fragment of the tag-stripped text for CITY and STREET and the
\* second for DISTRICT.
C9_KeysByLevel ==
    (op = "get_region_from_autosuggest" /\ requested # <<>> /\ WellFormed) =>
        /\ outcome = "return"
        /\ Keys(region_data) = LevelKeys(response.level)
        /\ ~(CITY \in Keys(region_data) /\ VOIVODESHIP \in Keys(region_data))
        /\ CITY \in Keys(region_data) =>
               LET stripped == str_replace(str_replace(response.text, STRONG_OPEN, <<>>),
                                           STRONG_CLOSE, <<>>)
                   fragments == str_split(stripped, <<",", " ">>)
                   name == IF response.level = "DISTRICT" THEN fragments[2] ELSE fragments[1]
               IN  /\ DictGet(region_data, CITY)
                        = StrV(normalize_text(name) \o <<"_">> \o int_to_str(response.city_id))
                   /\ \A j \in 1..Len(DictGet(region_data, CITY).s) :
                          DictGet(region_data, CITY).s[j] \notin {"<", ">", ","}

C9_Witness ==
    /\ Returned("get_region_from_autosuggest")
    /\ WellFormed
    /\ response.level = "DISTRICT"
    /\ DictGet(region_data, CITY) = StrV(<<"o","d","z","_","2","6">>)
    /\ DictGet(region_data, DISTRICT_ID) = IntV(7)

\* C10: the returned URL's path is BASE_URL/main/detail/location, location
\* being the region's city if it has one, else its voivodeship if it has
\* one, else empty; then /<building_type> if that filter is given; then
\* /q-<words joined by hyphens> if description_fragment is given.
C10_PathShape ==
    Returned("get_url") =>
        LET location ==
                IF CITY \in Keys(region_data) THEN DictGet(region_data, CITY).s
                ELSE IF VOIVODESHIP \in Keys(region_data)
                THEN DictGet(region_data, VOIVODESHIP).s
                ELSE <<>>
            building ==
                IF BUILDING_TYPE \in Keys(args.filters)
                THEN <<"/">> \o DictGet(args.filters, BUILDING_TYPE).s
                ELSE <<>>
            description ==
                IF DESCRIPTION_FRAGMENT \in Keys(args.filters)
                THEN <<"/", "q", "-">>
                     \o str_join(<<"-">>, str_split_ws(DictGet(args.filters, DESCRIPTION_FRAGMENT).s))
                ELSE <<>>
        IN  /\ ret.s = PathPrefix \o location \o building \o description \o Query
            /\ \A j \in 1..Len(description) : description[j] # " "
            /\ (/\ DESCRIPTION_FRAGMENT \in Keys(args.filters)
                /\ DictGet(args.filters, DESCRIPTION_FRAGMENT).s = <<" ","a"," "," ","b">>)
                   => description = <<"/","q","-","a","-","b">>

C10_Witness ==
    /\ Returned("get_url")
    /\ {CITY, BUILDING_TYPE, DESCRIPTION_FRAGMENT} \subseteq Keys(args.filters)
    /\ IsPrefixAt(ret.s,
                  PathPrefix \o <<"w","a","r","s","z","a","w","a","_","1","/","b","l","o","k",
                                  "/","q","-","b","l","i","s","k","o","-","m","e","t","r","a">>,
                  1)

====
